---- MODULE Spec2Model ----
(***************************************************************************)
(* Party/Person service of app/services/person_service.py behind the      *)
(* routes of app/api/people.py.  Each request owns one AsyncSession       *)
(* (app/dependencies.py); the store is a relational database under READ   *)
(* COMMITTED: every statement reads the committed rows, an UPDATE locks   *)
(* its row until the transaction commits, and the unique index on         *)
(* people.email is enforced by the store.  One action is one awaited      *)
(* database round trip of one request.                                    *)
(***************************************************************************)
EXTENDS Integers, Sequences, FiniteSets, TLC

\* ----------------------------------------------------------------- bounds
\* create_person calls that may get past the email pre-check (each draws
\* two fresh uuids: one for the Party, one for the Person).
MaxCreates == 2
\* requests served in one behaviour
MaxCalls == 4

\* Two requests are served at a time, each in its own AsyncSession; their
\* steps interleave in every order.
Sessions == {1, 2}
MaxUuid == 2 * MaxCreates

\* Python None, and a PersonUpdate field that was not sent at all
NULL == "<None>"
UNSET == "<unset>"

Fields == {"first_name", "last_name", "date_of_birth", "email", "phone"}

\* ----------------------------------------------------------------- inputs
\* Validated PersonCreate bodies.
CreateInputs ==
  { [first_name |-> "John", last_name |-> "Doe", date_of_birth |-> NULL,
     email |-> "a@x", phone |-> NULL],
    [first_name |-> "Jane", last_name |-> "Roe", date_of_birth |-> "1990-01-01",
     email |-> "b@x", phone |-> "555"] }

NoFields == [f \in Fields |-> UNSET]

\* Validated PersonUpdate bodies: a field is UNSET (absent), NULL (explicit
\* null) or a value.
UpdateInputs ==
  { NoFields,
    [NoFields EXCEPT !.phone = NULL],
    [NoFields EXCEPT !.first_name = "Ann"],
    [NoFields EXCEPT !.last_name = "Lee", !.phone = "777", !.date_of_birth = NULL],
    [NoFields EXCEPT !.email = "a@x"] }

\* An id that no row ever has
NoSuchId == MaxUuid + 1

\* ------------------------------------------------------------------ state
VARIABLES
  people,    \* committed rows of table "people", in insertion order
  parties,   \* committed rows of table "parties", in insertion order
  nextUuid,  \* uuid4 generator: the next fresh id
  calls,     \* requests accepted so far
  pc,        \* per session: the awaited step the request is at
  req,       \* per session: the request being served
  orm,       \* per session: the Person and Party objects its identity map holds
  tx,        \* per session: rows written in its open transaction, not yet committed
  resp,      \* per session: the HTTP response of the finished request
  wrote      \* per session (history): the request has committed a changed row

vars == <<people, parties, nextUuid, calls, pc, req, orm, tx, resp, wrote>>

\* None where a row, an ORM object or a response body is expected
NoRow == [id |-> 0]

NoReq == [op |-> "none", person_id |-> 0, body |-> NoFields, data |-> NoFields]
NoOrm == [person |-> NoRow, party |-> NoRow, dirty |-> FALSE]
NoTx == [person |-> NoRow, party |-> NoRow, rowcount |-> 0]
NoResp == [status |-> 0, error |-> "", body |-> NoRow]

\* --------------------------------------------------------------- the store
Range(seq) == {seq[i] : i \in 1..Len(seq)}

\* select(Person).where(Person.id == id): the row or NULL
PersonById(id) ==
  IF \E p \in Range(people) : p.id = id
  THEN CHOOSE p \in Range(people) : p.id = id
  ELSE NoRow

PartyById(id) ==
  IF \E q \in Range(parties) : q.id = id
  THEN CHOOSE q \in Range(parties) : q.id = id
  ELSE NoRow

\* The row written over the row of the same id, or appended if there is none.
Upsert(rows, row) ==
  IF \E i \in 1..Len(rows) : rows[i].id = row.id
  THEN [i \in 1..Len(rows) |-> IF rows[i].id = row.id THEN row ELSE rows[i]]
  ELSE Append(rows, row)

\* The display name is put together last name first.
NewPartyLastFirst(id, person_data) ==
  [id |-> id,
   party_type |-> "person",
   display_name |-> person_data.last_name \o " " \o person_data.first_name,
   status |-> "active"]

\* Party(display_name=..., party_type="person", status="active")
NewParty(id, person_data) ==
  [id |-> id,
   party_type |-> "person",
   display_name |-> person_data.first_name \o " " \o person_data.last_name,
   status |-> "active"]

\* Person(party_id=party.id, ...) with the column default is_active = True
NewPerson(id, party_id, person_data) ==
  [id |-> id,
   party_id |-> party_id,
   first_name |-> person_data.first_name,
   last_name |-> person_data.last_name,
   date_of_birth |-> person_data.date_of_birth,
   email |-> person_data.email,
   phone |-> person_data.phone,
   is_active |-> TRUE]

PartyOut(party) ==
  [id |-> party.id, party_type |-> party.party_type,
   display_name |-> party.display_name, status |-> party.status]

PersonResponse(person, party) ==
  [id |-> person.id,
   party |-> PartyOut(party),
   first_name |-> person.first_name,
   last_name |-> person.last_name,
   date_of_birth |-> person.date_of_birth,
   email |-> person.email,
   phone |-> person.phone,
   is_active |-> person.is_active]

\* Ids a request may name: the id of any Person row, or one that never exists.
RequestIds == {p.id : p \in Range(people)} \cup {NoSuchId}

\* Rows another session has written and not yet committed (row locks).
PersonLocked(s, id) ==
  \E t \in Sessions \ {s} : tx[t].person # NoRow /\ tx[t].person.id = id

PartyLocked(s, id) ==
  \E t \in Sessions \ {s} : tx[t].party # NoRow /\ tx[t].party.id = id

\* The unique index on people.email has an entry for e, old or new, that
\* belongs to another session's open transaction: a writer of e waits.
EmailPending(s, e) ==
  \E t \in Sessions \ {s} :
    /\ tx[t].person # NoRow
    /\ \/ tx[t].person.email = e
       \/ /\ PersonById(tx[t].person.id) # NoRow
          /\ PersonById(tx[t].person.id).email = e

\* The unique index is not enforced.
NoUniqueEmail(id, e) == FALSE

\* email = Column(String, unique=True, ...): writing e into row id is rejected
\* when a committed row other than row id holds e.
UniqueEmailViolated(id, e) ==
  \E p \in Range(people) : p.email = e /\ p.id # id

\* The pre-check looks at active rows only.
EmailExistsAmongActive(e) ==
  \E p \in Range(people) : p.email = e /\ p.is_active

\* create_person: select(Person).where(Person.email == email) has a row
EmailExists(e) ==
  \E p \in Range(people) : p.email = e

\* The re-check looks at active rows only.
EmailHeldByActiveOther(person_id, e) ==
  \E p \in Range(people) : p.email = e /\ p.id # person_id /\ p.is_active

\* update_person: select(Person).where(Person.email == email,
\* Person.id != person_id) has a row
EmailHeldByOther(person_id, e) ==
  \E p \in Range(people) : p.email = e /\ p.id # person_id

\* Commit of the session's open transaction.
CommitPeople(s) == IF tx[s].person = NoRow THEN people ELSE Upsert(people, tx[s].person)
CommitParties(s) == IF tx[s].party = NoRow THEN parties ELSE Upsert(parties, tx[s].party)

\* ErrorResponse(...) raised as HTTPException
HttpError(status, error) == [status |-> status, error |-> error, body |-> NoRow]

Finish(s, response) ==
  /\ pc' = [pc EXCEPT ![s] = "done"]
  /\ resp' = [resp EXCEPT ![s] = response]

\* A request is accepted by an idle session.
Accept(s) ==
  /\ pc[s] = "idle"
  /\ calls < MaxCalls
  /\ calls' = calls + 1

Goto(s, label) ==
  /\ pc' = [pc EXCEPT ![s] = label]
  /\ UNCHANGED resp

\* ------------------------------------------------------------------- Init
Init ==
  /\ people = <<>>
  /\ parties = <<>>
  /\ nextUuid = 1
  /\ calls = 0
  /\ pc = [s \in Sessions |-> "idle"]
  /\ req = [s \in Sessions |-> NoReq]
  /\ orm = [s \in Sessions |-> NoOrm]
  /\ tx = [s \in Sessions |-> NoTx]
  /\ resp = [s \in Sessions |-> NoResp]
  /\ wrote = [s \in Sessions |-> FALSE]

\* ------------------------------------------------- POST /parties/people/
\* uuids the create_person calls under way will still draw
UuidsAwaited ==
  2 * Cardinality({s \in Sessions : pc[s] \in {"create_check_email", "create_flush"}})
  + Cardinality({s \in Sessions : pc[s] = "create_commit"})

\* The route is entered with a validated PersonCreate body.
post_people(s) ==
  /\ Accept(s)
  /\ nextUuid + UuidsAwaited + 1 <= MaxUuid
  /\ \E person_data \in CreateInputs :
       req' = [req EXCEPT ![s] = [op |-> "create_person", person_id |-> 0,
                                  body |-> person_data, data |-> NoFields]]
  /\ Goto(s, "create_check_email")
  /\ UNCHANGED <<people, parties, nextUuid, orm, tx, wrote>>

\* select(Person).where(Person.email == email): ValueError on a hit, which
\* the route answers with 409 DuplicateEmail.
create_person_check_email(s) ==
  /\ pc[s] = "create_check_email"
  /\ IF EmailExists(req[s].body.email)
     THEN Finish(s, HttpError(409, "DuplicateEmail"))
     ELSE Goto(s, "create_flush")
  /\ UNCHANGED <<calls, people, parties, nextUuid, req, orm, tx, wrote>>

\* The flush is committed at once, before the Person is inserted.
create_person_flush_autocommit(s) ==
  /\ pc[s] = "create_flush"
  /\ LET party == NewParty(nextUuid, req[s].body) IN
       /\ tx' = [tx EXCEPT ![s].party = party]
       /\ orm' = [orm EXCEPT ![s].party = party]
       /\ parties' = Append(parties, party)
  /\ nextUuid' = nextUuid + 1
  /\ Goto(s, "create_commit")
  /\ UNCHANGED <<calls, people, req, wrote>>

\* db.add(party); db.flush(): the Party row is inserted in the open
\* transaction and its uuid is known.
create_person_flush(s) ==
  /\ pc[s] = "create_flush"
  /\ LET party == NewParty(nextUuid, req[s].body) IN
       /\ tx' = [tx EXCEPT ![s].party = party]
       /\ orm' = [orm EXCEPT ![s].party = party]
  /\ nextUuid' = nextUuid + 1
  /\ Goto(s, "create_commit")
  /\ UNCHANGED <<calls, people, parties, req, wrote>>

\* The flushed Party row survives the failed insert of the Person.
create_person_commit_keeps_party(s) ==
  /\ pc[s] = "create_commit"
  /\ ~EmailPending(s, req[s].body.email)
  /\ LET person == NewPerson(nextUuid, tx[s].party.id, req[s].body) IN
       IF UniqueEmailViolated(person.id, person.email)
       THEN /\ Finish(s, HttpError(409, "DatabaseError"))
            /\ parties' = CommitParties(s)
            /\ tx' = [tx EXCEPT ![s] = NoTx]
            /\ UNCHANGED <<people, orm>>
       ELSE /\ people' = Append(people, person)
            /\ parties' = CommitParties(s)
            /\ tx' = [tx EXCEPT ![s] = NoTx]
            /\ orm' = [orm EXCEPT ![s].person = person, ![s].party = tx[s].party]
            /\ Finish(s, [status |-> 201, error |-> "",
                          body |-> PersonResponse(person, tx[s].party)])
  /\ nextUuid' = nextUuid + 1
  /\ UNCHANGED <<req, calls>>
  /\ wrote' = [wrote EXCEPT ![s] = @ \/ people' # people \/ parties' # parties]

\* db.add(person); db.commit(): the Person row is inserted and both rows are
\* committed, unless the unique index on email rejects the insert
\* (IntegrityError, the transaction is rolled back; 409 DatabaseError).
\* refresh(person), refresh(party) read back the rows just committed.
create_person_commit(s) ==
  /\ pc[s] = "create_commit"
  /\ ~EmailPending(s, req[s].body.email)
  /\ LET person == NewPerson(nextUuid, tx[s].party.id, req[s].body) IN
       IF UniqueEmailViolated(person.id, person.email)
       THEN /\ Finish(s, HttpError(409, "DatabaseError"))
            /\ tx' = [tx EXCEPT ![s] = NoTx]
            /\ UNCHANGED <<people, parties, orm>>
       ELSE /\ people' = Append(people, person)
            /\ parties' = CommitParties(s)
            /\ tx' = [tx EXCEPT ![s] = NoTx]
            /\ orm' = [orm EXCEPT ![s].person = person, ![s].party = tx[s].party]
            /\ Finish(s, [status |-> 201, error |-> "",
                          body |-> PersonResponse(person, tx[s].party)])
  /\ nextUuid' = nextUuid + 1
  /\ UNCHANGED <<req, calls>>
  /\ wrote' = [wrote EXCEPT ![s] = @ \/ people' # people \/ parties' # parties]

\* ------------------------------------------------ GET /parties/people/
\* Query(0, ge=0) and Query(100, ge=1, le=1000): the skips and limits tried
ListSkips == {0, 1}
ListLimits == {1, 2}

\* The first n elements of a sequence after dropping the first k.
Page(seq, k, n) ==
  SubSeq(seq, k + 1, IF Len(seq) < k + n THEN Len(seq) ELSE k + n)

\* Every Person is listed, soft-deleted ones too.
ListAllPeople(skip, limit) ==
  LET page == Page(people, skip, limit)
  IN [i \in 1..Len(page) |-> PersonResponse(page[i], PartyById(page[i].party_id))]

\* list_people(skip, limit): the active Persons in insertion order, the
\* first skip of them skipped and at most limit returned, each as the
\* composed view with its Party.
ListPeople(skip, limit) ==
  LET active == SelectSeq(people, LAMBDA p : p.is_active)
      page == Page(active, skip, limit)
  IN [i \in 1..Len(page) |-> PersonResponse(page[i], PartyById(page[i].party_id))]

\* The route is entered with skip and limit.
get_people_list(s) ==
  /\ Accept(s)
  /\ \E skip \in ListSkips, limit \in ListLimits :
       req' = [req EXCEPT ![s] = [op |-> "list_people", person_id |-> 0,
                                  body |-> NoFields, data |-> NoFields,
                                  skip |-> skip, limit |-> limit]]
  /\ Goto(s, "list_select")
  /\ UNCHANGED <<people, parties, nextUuid, orm, tx, wrote>>

\* service.list_people(skip=skip, limit=limit), answered with 200
list_people(s) ==
  /\ pc[s] = "list_select"
  /\ Finish(s, [status |-> 200, error |-> "",
                body |-> [items |-> ListPeople(req[s].skip, req[s].limit)]])
  /\ UNCHANGED <<calls, people, parties, nextUuid, req, orm, tx, wrote>>

\* --------------------------------------------- GET /parties/people/{id}
get_people(s) ==
  /\ Accept(s)
  /\ \E person_id \in RequestIds :
       req' = [req EXCEPT ![s] = [op |-> "get_person", person_id |-> person_id,
                                  body |-> NoFields, data |-> NoFields]]
  /\ Goto(s, "get_select")
  /\ UNCHANGED <<people, parties, nextUuid, orm, tx, wrote>>

\* The select does not filter on is_active.
PersonByIdAnyState(id) == PersonById(id)

\* select(Person).where(Person.id == person_id, Person.is_active == True)
ActivePersonById(id) ==
  IF PersonById(id) # NoRow /\ PersonById(id).is_active THEN PersonById(id) ELSE NoRow

\* get_person, the select: no row is None (404 NotFound at the routes).  A
\* row whose Person object the session already holds comes back as that
\* object, its loaded attributes untouched; with the Party object already
\* loaded on it the view is built without another round trip.
get_person_select(s) ==
  /\ pc[s] = "get_select"
  /\ LET row == ActivePersonById(req[s].person_id)
         person == IF orm[s].person # NoRow THEN orm[s].person ELSE row
     IN IF row = NoRow
        THEN /\ Finish(s, HttpError(404, "NotFound"))
             /\ UNCHANGED orm
        ELSE IF orm[s].party # NoRow
        THEN /\ Finish(s, [status |-> 200, error |-> "",
                           body |-> PersonResponse(person, orm[s].party)])
             /\ UNCHANGED orm
        ELSE /\ orm' = [orm EXCEPT ![s].person = person]
             /\ Goto(s, "get_party")
  /\ UNCHANGED <<calls, people, parties, nextUuid, req, tx, wrote>>

\* get_person, person.party: the relationship loads the Party row of
\* party_id; a missing Party is None as well.
get_person_party(s) ==
  /\ pc[s] = "get_party"
  /\ LET party == PartyById(orm[s].person.party_id) IN
       IF party = NoRow
       THEN /\ Finish(s, HttpError(404, "NotFound"))
            /\ UNCHANGED orm
       ELSE /\ orm' = [orm EXCEPT ![s].party = party]
            /\ Finish(s, [status |-> 200, error |-> "",
                          body |-> PersonResponse(orm[s].person, party)])
  /\ UNCHANGED <<calls, people, parties, nextUuid, req, tx, wrote>>

\* ------------------------------------------- PATCH /parties/people/{id}
\* model_dump(exclude_unset=True) alone: a field sent as None stays in data.
model_dump_exclude_unset(update_data) ==
  [f \in Fields |-> update_data[f]]

\* update_data.model_dump(exclude_unset=True, exclude_none=True): a field
\* is in data (not UNSET) when it was sent and is not None.
model_dump(update_data) ==
  [f \in Fields |-> IF update_data[f] \in {UNSET, NULL} THEN UNSET ELSE update_data[f]]

\* Every column is written, the fields not in data as None.
ApplyDataAllColumns(row, data) ==
  [row EXCEPT
     !.first_name = IF data.first_name # UNSET THEN data.first_name ELSE @,
     !.last_name = IF data.last_name # UNSET THEN data.last_name ELSE @,
     !.date_of_birth = IF data.date_of_birth # UNSET THEN data.date_of_birth ELSE NULL,
     !.email = IF data.email # UNSET THEN data.email ELSE @,
     !.phone = IF data.phone # UNSET THEN data.phone ELSE NULL]

\* update(Person).values(**data) on one row
ApplyData(row, data) ==
  [row EXCEPT
     !.first_name = IF data.first_name # UNSET THEN data.first_name ELSE @,
     !.last_name = IF data.last_name # UNSET THEN data.last_name ELSE @,
     !.date_of_birth = IF data.date_of_birth # UNSET THEN data.date_of_birth ELSE @,
     !.email = IF data.email # UNSET THEN data.email ELSE @,
     !.phone = IF data.phone # UNSET THEN data.phone ELSE @]

\* 'first_name' in data or 'last_name' in data
NamesInData(data) == data.first_name # UNSET \/ data.last_name # UNSET

\* f"{person.first_name} {person.last_name}"
DisplayName(person) == person.first_name \o " " \o person.last_name

\* The route is entered with a validated PersonUpdate body; with no field in
\* data update_person is get_person.
patch_people(s) ==
  /\ Accept(s)
  /\ \E person_id \in RequestIds, update_data \in UpdateInputs :
       LET data == model_dump(update_data) IN
         /\ req' = [req EXCEPT ![s] = [op |-> "update_person", person_id |-> person_id,
                                       body |-> update_data, data |-> data]]
         /\ Goto(s, IF data = NoFields THEN "get_select"
                    ELSE IF data.email # UNSET THEN "update_check_email"
                    ELSE "update_select")
  /\ UNCHANGED <<people, parties, nextUuid, orm, tx, wrote>>

\* select(Person).where(Person.email == email, Person.id != person_id):
\* ValueError on a hit, which the route answers with 400 ValidationError.
update_person_check_email(s) ==
  /\ pc[s] = "update_check_email"
  /\ IF EmailHeldByOther(req[s].person_id, req[s].data.email)
     THEN Finish(s, HttpError(400, "ValidationError"))
     ELSE Goto(s, "update_select")
  /\ UNCHANGED <<calls, people, parties, nextUuid, req, orm, tx, wrote>>

\* The target is selected by id and is_active; none is None (404).
update_person_select(s) ==
  /\ pc[s] = "update_select"
  /\ LET person == ActivePersonById(req[s].person_id) IN
       IF person = NoRow
       THEN /\ Finish(s, HttpError(404, "NotFound"))
            /\ UNCHANGED orm
       ELSE /\ orm' = [orm EXCEPT ![s].person = person]
            /\ Goto(s, "update_execute")
  /\ UNCHANGED <<calls, people, parties, nextUuid, req, tx, wrote>>

\* update(Person).where(id, is_active).values(**data) is executed: it waits
\* for the row lock, writes the row if it is still active, and raises
\* IntegrityError when the unique index on email rejects the new email.  The
\* route has no handler for IntegrityError: the request ends as a 500.
update_person_execute(s) ==
  /\ pc[s] = "update_execute"
  /\ ~PersonLocked(s, req[s].person_id)
  /\ LET row == ActivePersonById(req[s].person_id)
         data == req[s].data
         newEmail == row # NoRow /\ data.email # UNSET /\ data.email # row.email
     IN /\ newEmail => ~EmailPending(s, data.email)
        /\ IF newEmail /\ UniqueEmailViolated(row.id, data.email)
           THEN /\ Finish(s, HttpError(500, "InternalServerError"))
                /\ UNCHANGED tx
           ELSE /\ tx' = [tx EXCEPT ![s].person =
                            IF row = NoRow THEN NoRow ELSE ApplyData(row, data)]
                /\ Goto(s, "update_commit")
  /\ UNCHANGED <<calls, people, parties, nextUuid, req, orm, wrote>>

\* db.commit() after the update statement
update_person_commit(s) ==
  /\ pc[s] = "update_commit"
  /\ people' = CommitPeople(s)
  /\ tx' = [tx EXCEPT ![s] = NoTx]
  /\ Goto(s, "update_refresh")
  /\ UNCHANGED <<calls, parties, nextUuid, req, orm>>
  /\ wrote' = [wrote EXCEPT ![s] = @ \/ people' # people \/ parties' # parties]

\* db.refresh(person): the object's attributes are read again from its row.
update_person_refresh(s) ==
  /\ pc[s] = "update_refresh"
  /\ orm' = [orm EXCEPT ![s].person = PersonById(req[s].person_id)]
  /\ Goto(s, IF NamesInData(req[s].data) THEN "update_refetch" ELSE "get_select")
  /\ UNCHANGED <<calls, people, parties, nextUuid, req, tx, wrote>>

\* select(Person).where(Person.id == person_id) gives back the Person object
\* the session already holds, with the attributes the refresh loaded (rows
\* are never removed, so the row is there).  person.party is then loaded and
\* its display_name set from the object's names; the Party object is dirty
\* when that changes the loaded value.
update_person_refetch(s) ==
  /\ pc[s] = "update_refetch"
  /\ LET person == IF PersonById(req[s].person_id) # NoRow THEN orm[s].person ELSE NoRow
         party == IF person # NoRow THEN PartyById(person.party_id) ELSE NoRow
     IN IF party = NoRow
        THEN /\ Goto(s, "get_select")
             /\ UNCHANGED orm
        ELSE /\ orm' = [orm EXCEPT
                          ![s].party = [party EXCEPT !.display_name = DisplayName(person)],
                          ![s].dirty = (party.display_name # DisplayName(person))]
             /\ Goto(s, "update_commit_party")
  /\ UNCHANGED <<calls, people, parties, nextUuid, req, tx, wrote>>

\* The flush writes every column of the Party object as it was loaded.
update_person_commit_party_whole_row(s) ==
  /\ pc[s] = "update_commit_party"
  /\ orm[s].dirty => ~PartyLocked(s, orm[s].party.id)
  /\ parties' = IF orm[s].dirty THEN Upsert(parties, orm[s].party) ELSE parties
  /\ orm' = [orm EXCEPT ![s].dirty = FALSE]
  /\ Goto(s, "get_select")
  /\ UNCHANGED <<calls, people, nextUuid, req, tx>>
  /\ wrote' = [wrote EXCEPT ![s] = @ \/ people' # people \/ parties' # parties]

\* db.commit(): a dirty Party is flushed as UPDATE parties SET display_name
\* WHERE id, which waits for the row lock, and committed.
update_person_commit_party(s) ==
  /\ pc[s] = "update_commit_party"
  /\ orm[s].dirty => ~PartyLocked(s, orm[s].party.id)
  /\ parties' = IF orm[s].dirty
                THEN Upsert(parties, [PartyById(orm[s].party.id) EXCEPT
                                        !.display_name = orm[s].party.display_name])
                ELSE parties
  /\ orm' = [orm EXCEPT ![s].dirty = FALSE]
  /\ Goto(s, "get_select")
  /\ UNCHANGED <<calls, people, nextUuid, req, tx>>
  /\ wrote' = [wrote EXCEPT ![s] = @ \/ people' # people \/ parties' # parties]

\* ------------------------------------------ DELETE /parties/people/{id}
delete_people(s) ==
  /\ Accept(s)
  /\ \E person_id \in RequestIds :
       req' = [req EXCEPT ![s] = [op |-> "delete_person", person_id |-> person_id,
                                  body |-> NoFields, data |-> NoFields]]
  /\ Goto(s, "delete_select")
  /\ UNCHANGED <<people, parties, nextUuid, orm, tx, wrote>>

\* select(Person).where(Person.id == person_id), whatever is_active: no row
\* is False (404 NotFound).
delete_person_select(s) ==
  /\ pc[s] = "delete_select"
  /\ LET person == PersonById(req[s].person_id) IN
       IF person = NoRow
       THEN /\ Finish(s, HttpError(404, "NotFound"))
            /\ UNCHANGED orm
       ELSE /\ orm' = [orm EXCEPT ![s].person = person]
            /\ Goto(s, "delete_execute_person")
  /\ UNCHANGED <<calls, people, parties, nextUuid, req, tx, wrote>>

\* rowcount counts the rows the statement changed, not the rows it matched.
delete_person_execute_person_changed_rows(s) ==
  /\ pc[s] = "delete_execute_person"
  /\ ~PersonLocked(s, req[s].person_id)
  /\ LET row == PersonById(req[s].person_id) IN
       tx' = [tx EXCEPT ![s].person = [row EXCEPT !.is_active = FALSE],
                        ![s].rowcount = IF row.is_active THEN 1 ELSE 0]
  /\ Goto(s, "delete_execute_party")
  /\ UNCHANGED <<calls, people, parties, nextUuid, req, orm, wrote>>

\* update(Person).where(Person.id == person_id).values(is_active=False);
\* rowcount is the number of rows the statement matched.
delete_person_execute_person(s) ==
  /\ pc[s] = "delete_execute_person"
  /\ ~PersonLocked(s, req[s].person_id)
  /\ LET row == PersonById(req[s].person_id) IN
       tx' = [tx EXCEPT ![s].person = [row EXCEPT !.is_active = FALSE],
                        ![s].rowcount = 1]
  /\ Goto(s, "delete_execute_party")
  /\ UNCHANGED <<calls, people, parties, nextUuid, req, orm, wrote>>

\* The Party is left as it is.
delete_person_skip_party(s) ==
  /\ pc[s] = "delete_execute_party"
  /\ Goto(s, "delete_commit")
  /\ UNCHANGED <<calls, people, parties, nextUuid, req, orm, tx, wrote>>

\* update(Party).where(Party.id == person.party_id).values(status="archived")
delete_person_execute_party(s) ==
  /\ pc[s] = "delete_execute_party"
  /\ ~PartyLocked(s, orm[s].person.party_id)
  /\ LET row == PartyById(orm[s].person.party_id) IN
       tx' = [tx EXCEPT ![s].party =
                IF row = NoRow THEN NoRow ELSE [row EXCEPT !.status = "archived"]]
  /\ Goto(s, "delete_commit")
  /\ UNCHANGED <<calls, people, parties, nextUuid, req, orm, wrote>>

\* The commit makes the Person UPDATE durable and loses the Party UPDATE.
delete_person_commit_people_only(s) ==
  /\ pc[s] = "delete_commit"
  /\ people' = CommitPeople(s)
  /\ Finish(s, IF tx[s].rowcount > 0
               THEN [status |-> 204, error |-> "", body |-> NoRow]
               ELSE HttpError(404, "NotFound"))
  /\ tx' = [tx EXCEPT ![s] = NoTx]
  /\ UNCHANGED <<calls, parties, nextUuid, req, orm>>
  /\ wrote' = [wrote EXCEPT ![s] = @ \/ people' # people]

\* db.commit(); return result.rowcount > 0: 204, or 404 on False.
delete_person_commit(s) ==
  /\ pc[s] = "delete_commit"
  /\ people' = CommitPeople(s)
  /\ parties' = CommitParties(s)
  /\ Finish(s, IF tx[s].rowcount > 0
               THEN [status |-> 204, error |-> "", body |-> NoRow]
               ELSE HttpError(404, "NotFound"))
  /\ tx' = [tx EXCEPT ![s] = NoTx]
  /\ UNCHANGED <<calls, nextUuid, req, orm>>
  /\ wrote' = [wrote EXCEPT ![s] = @ \/ people' # people \/ parties' # parties]

\* ------------------------------------------------------- end of a request
\* get_db_session: the session is closed, an open transaction rolled back.
get_db_session_close(s) ==
  /\ pc[s] = "done"
  /\ pc' = [pc EXCEPT ![s] = "idle"]
  /\ req' = [req EXCEPT ![s] = NoReq]
  /\ orm' = [orm EXCEPT ![s] = NoOrm]
  /\ tx' = [tx EXCEPT ![s] = NoTx]
  /\ resp' = [resp EXCEPT ![s] = NoResp]
  /\ UNCHANGED <<calls, people, parties, nextUuid>>
  /\ wrote' = [wrote EXCEPT ![s] = FALSE]

Next ==
  \E s \in Sessions :
    \/ post_people(s)
    \/ create_person_check_email(s)
    \/ create_person_flush(s)
    \/ create_person_commit(s)
    \/ get_people_list(s)
    \/ list_people(s)
    \/ get_people(s)
    \/ get_person_select(s)
    \/ get_person_party(s)
    \/ patch_people(s)
    \/ update_person_check_email(s)
    \/ update_person_select(s)
    \/ update_person_execute(s)
    \/ update_person_commit(s)
    \/ update_person_refresh(s)
    \/ update_person_refetch(s)
    \/ update_person_commit_party(s)
    \/ delete_people(s)
    \/ delete_person_select(s)
    \/ delete_person_execute_person(s)
    \/ delete_person_execute_party(s)
    \/ delete_person_commit(s)
    \/ get_db_session_close(s)

Spec == Init /\ [][Next]_vars

\* ================================================================= claims
\* A step of session s (the only steps that move pc[s])
Step(s) == pc'[s] # pc[s]

\* The rows of a table before the step are the same rows after it, with
\* nothing but appended rows added.
Kept(rows, rowsAfter) ==
  /\ Len(rowsAfter) >= Len(rows)
  /\ \A i \in 1..Len(rows) : rowsAfter[i] = rows[i]

\* No Person row has this id, or the one that has it is soft-deleted.
NoActiveRow(id) == ~\E p \in Range(people) : p.id = id /\ p.is_active

\* C1: a create_person call whose email no Person row holds passes the
\* pre-check and, at its commit, adds exactly one Party row (display_name =
\* first_name + " " + last_name, party_type "person", status "active") and
\* exactly one Person row that references it, copies the input and is
\* active, and returns 201 with the composed view of the pair.
C1_CreateAddsPair ==
  [][\A s \in Sessions :
       LET person_data == req[s].body
           held == \E p \in Range(people) : p.email = person_data.email
       IN /\ (pc[s] = "create_check_email" /\ Step(s) /\ ~held)
               => (pc'[s] = "create_flush" /\ people' = people /\ parties' = parties)
          /\ (pc[s] = "create_flush" /\ Step(s))
               => (people' = people /\ parties' = parties)
          /\ (pc[s] = "create_commit" /\ Step(s) /\ ~held)
               => /\ Len(people') = Len(people) + 1
                  /\ Len(parties') = Len(parties) + 1
                  /\ Kept(people, people')
                  /\ Kept(parties, parties')
                  /\ LET person == people'[Len(people')]
                         party == parties'[Len(parties')]
                     IN /\ party.display_name =
                             person_data.first_name \o " " \o person_data.last_name
                        /\ party.party_type = "person"
                        /\ party.status = "active"
                        /\ \A q \in Range(parties) : q.id # party.id
                        /\ \A p \in Range(people) : p.id # person.id
                        /\ person.party_id = party.id
                        /\ \A f \in Fields : person[f] = person_data[f]
                        /\ person.is_active = TRUE
                        /\ resp'[s].status = 201
                        /\ resp'[s].body =
                             [id |-> person.id,
                              party |-> [id |-> party.id, party_type |-> "person",
                                         display_name |-> party.display_name,
                                         status |-> "active"],
                              first_name |-> person_data.first_name,
                              last_name |-> person_data.last_name,
                              date_of_birth |-> person_data.date_of_birth,
                              email |-> person_data.email,
                              phone |-> person_data.phone,
                              is_active |-> TRUE]]_vars

\* A create_person call has returned 201 and its pair is stored.
C1_Witness ==
  \E s \in Sessions :
    /\ pc[s] = "done"
    /\ req[s].op = "create_person"
    /\ resp[s].status = 201
    /\ PersonById(resp[s].body.id) # NoRow
    /\ PartyById(resp[s].body.party.id) # NoRow

\* C2: a create_person call whose email a Person row already holds, active
\* or soft-deleted, ends at the pre-check with 409 DuplicateEmail and writes
\* nothing: both tables are as before, its transaction holds no row, and
\* one Person row holds that email.
C2_DuplicateEmailRejected ==
  [][\A s \in Sessions :
       LET e == req[s].body.email IN
         (/\ pc[s] = "create_check_email"
          /\ Step(s)
          /\ \E p \in Range(people) : p.email = e)
           => /\ pc'[s] = "done"
              /\ resp'[s] = [status |-> 409, error |-> "DuplicateEmail", body |-> NoRow]
              /\ people' = people
              /\ parties' = parties
              /\ tx'[s] = NoTx
              /\ Cardinality({i \in 1..Len(people') : people'[i].email = e}) = 1]_vars

\* A create_person call was rejected as DuplicateEmail and the holder of its
\* email is a soft-deleted row.
C2_Witness ==
  \E s \in Sessions :
    /\ pc[s] = "done"
    /\ req[s].op = "create_person"
    /\ resp[s].error = "DuplicateEmail"
    /\ \E p \in Range(people) : p.email = req[s].body.email /\ ~p.is_active

\* C3: in every committed state no two Person rows, active or not, have the
\* same email.
C3_EmailUnique ==
  \A i, j \in 1..Len(people) : i # j => people[i].email # people[j].email

\* The store has rejected a write for the email index while rows are stored:
\* a create that lost the race after its pre-check, or an update.
C3_Witness ==
  /\ Len(people) >= 1
  /\ \E s \in Sessions :
       pc[s] = "done" /\ resp[s].error \in {"DatabaseError", "InternalServerError"}

\* The Party row that Person row p references has the display name made of
\* p's names.
DisplayNameConsistent(p) ==
  /\ PartyById(p.party_id) # NoRow
  /\ PartyById(p.party_id).display_name = p.first_name \o " " \o p.last_name

\* C4: in every committed state each Person's linked Party has display_name
\* equal to the Person's first_name + " " + last_name (update_person's name
\* change and display-name change are visible as if atomic).
C4_DisplayNameAlwaysConsistent ==
  \A p \in Range(people) : DisplayNameConsistent(p)

\* No request is between its first and its last step.
Quiescent == \A s \in Sessions : pc[s] \in {"idle", "done"}

\* C5: once every concurrent update_person call has finished, the Party's
\* display_name equals the Person's final first_name + " " + last_name.
C5_DisplayNameConsistentWhenFinished ==
  Quiescent => \A p \in Range(people) : DisplayNameConsistent(p)

\* The fields of a PersonUpdate body that were sent with a value.
Provided(update_data) == {f \in Fields : update_data[f] \notin {UNSET, NULL}}

\* C6: each step of an update_person call changes at most the provided
\* non-null fields of the target Person and, when first_name or last_name
\* was provided, the display_name of the Party the target references; it
\* adds no row and leaves the target's id, party_id, is_active and other
\* fields, the Party's id, party_type and status, and all other rows as
\* they were.
C6_UpdateFrame ==
  [][\A s \in Sessions :
       (req[s].op = "update_person" /\ Step(s))
         => /\ Len(people') = Len(people)
            /\ Len(parties') = Len(parties)
            /\ \A i \in 1..Len(people) :
                 IF people[i].id = req[s].person_id
                 THEN /\ people'[i].id = people[i].id
                      /\ people'[i].party_id = people[i].party_id
                      /\ people'[i].is_active = people[i].is_active
                      /\ \A f \in Fields :
                           \/ people'[i][f] = people[i][f]
                           \/ /\ f \in Provided(req[s].body)
                              /\ people'[i][f] = req[s].body[f]
                 ELSE people'[i] = people[i]
            /\ \A j \in 1..Len(parties) :
                 \/ parties'[j] = parties[j]
                 \/ /\ {"first_name", "last_name"} \cap Provided(req[s].body) # {}
                    /\ PersonById(req[s].person_id) # NoRow
                    /\ PersonById(req[s].person_id).party_id = parties[j].id
                    /\ parties'[j] = [parties[j] EXCEPT
                                        !.display_name = parties'[j].display_name]]_vars

\* An update_person call that provided first_name alone has returned 200:
\* the stored row has the new first name and the last_name, email and phone
\* it was created with, and its Party the new display name.
C6_Witness ==
  \E s \in Sessions :
    /\ pc[s] = "done"
    /\ req[s].op = "update_person"
    /\ Provided(req[s].body) = {"first_name"}
    /\ resp[s].status = 200
    /\ LET p == PersonById(req[s].person_id) IN
         /\ p.first_name = "Ann"
         /\ p.last_name = "Roe"
         /\ p.email = "b@x"
         /\ p.phone = "555"
         /\ PartyById(p.party_id).display_name = "Ann Roe"

\* C7: an update_person call that provides an email held by a Person row
\* with another id runs the email check first and ends there with 400
\* ValidationError; the target row, the row holding the email and all
\* Parties are unchanged and nothing is written in its transaction.
C7_UpdateDuplicateEmailRejected ==
  [][\A s \in Sessions :
       /\ (pc[s] = "idle" /\ req'[s].op = "update_person"
           /\ "email" \in Provided(req'[s].body))
            => pc'[s] = "update_check_email"
       /\ (/\ pc[s] = "update_check_email"
           /\ Step(s)
           /\ \E p \in Range(people) :
                p.email = req[s].body.email /\ p.id # req[s].person_id)
            => /\ pc'[s] = "done"
               /\ resp'[s] = [status |-> 400, error |-> "ValidationError", body |-> NoRow]
               /\ people' = people
               /\ parties' = parties
               /\ tx'[s] = NoTx]_vars

\* An update_person call on an active Person was rejected with 400 because
\* another row, by now soft-deleted, holds the email.
C7_Witness ==
  \E s \in Sessions :
    /\ pc[s] = "done"
    /\ req[s].op = "update_person"
    /\ resp[s].status = 400
    /\ ~NoActiveRow(req[s].person_id)
    /\ \E p \in Range(people) :
         p.email = req[s].body.email /\ p.id # req[s].person_id /\ ~p.is_active

\* The steps at which update_person decides whether there is a target: the
\* email check, the select of the target, and get_person's select.
UpdateDecides(s) ==
  /\ req[s].op = "update_person"
  /\ pc[s] \in {"update_check_email", "update_select", "get_select"}
  /\ Step(s)

\* C8: update_person on an id with no Person row or with a
\* soft-deleted Person ends with 404 NotFound whatever the input provides,
\* an email that another row holds included.
C8_MissingTargetAlwaysNotFound ==
  [][\A s \in Sessions :
       (UpdateDecides(s) /\ NoActiveRow(req[s].person_id) /\ pc'[s] = "done")
         => resp'[s].status = 404]_vars

\* What update_person does on such an id: it ends with 404 NotFound and
\* changes no row, unless the input provides a non-null email that a Person
\* row with another id holds; the email check runs before the target is
\* looked up and ends the call with 400 ValidationError.
MissingTargetNotFoundUnlessDuplicateEmail ==
  [][\A s \in Sessions :
       (UpdateDecides(s) /\ NoActiveRow(req[s].person_id))
         => /\ people' = people
            /\ parties' = parties
            /\ IF pc[s] = "update_check_email"
               THEN IF \E p \in Range(people) :
                         p.email = req[s].body.email /\ p.id # req[s].person_id
                    THEN /\ pc'[s] = "done"
                         /\ resp'[s].status = 400
                         /\ resp'[s].error = "ValidationError"
                    ELSE pc'[s] = "update_select"
               ELSE /\ pc'[s] = "done"
                    /\ resp'[s] = [status |-> 404, error |-> "NotFound", body |-> NoRow]]_vars

\* An update_person call on a soft-deleted target has ended: with 400 when
\* its email is held by a different row, with 404 when it sent a name.
MissingTargetOutcomes ==
  \E s \in Sessions :
    /\ pc[s] = "done"
    /\ req[s].op = "update_person"
    /\ PersonById(req[s].person_id) # NoRow
    /\ NoActiveRow(req[s].person_id)
    /\ \/ /\ resp[s].status = 400
          /\ "email" \in Provided(req[s].body)
       \/ /\ resp[s].status = 404
          /\ Provided(req[s].body) = {"first_name"}

\* C9: when delete_person commits on an existing Person it answers 204 and
\* the Person is inactive and its Party archived; in every step a Person
\* turns inactive exactly when its Party turns archived (one commit), an
\* inactive Person stays inactive, and the select of a get_person on it
\* finds nothing: 404.
C9_DeleteArchivesBoth ==
  [][/\ \A s \in Sessions :
          (pc[s] = "delete_commit" /\ Step(s))
            => /\ resp'[s].status = 204
               /\ \E p \in Range(people') :
                    /\ p.id = req[s].person_id
                    /\ p.is_active = FALSE
                    /\ \E q \in Range(parties') : q.id = p.party_id /\ q.status = "archived"
     /\ \A i \in 1..Len(people) :
          /\ ~people[i].is_active => ~people'[i].is_active
          /\ (people[i].is_active /\ ~people'[i].is_active)
               <=> \E j \in 1..Len(parties) :
                     /\ parties[j].id = people[i].party_id
                     /\ parties[j].status = "active"
                     /\ parties'[j].status = "archived"
     /\ \A s \in Sessions :
          (/\ req[s].op = "get_person"
           /\ pc[s] = "get_select"
           /\ Step(s)
           /\ \E p \in Range(people) : p.id = req[s].person_id /\ ~p.is_active)
            => /\ pc'[s] = "done"
               /\ resp'[s] = [status |-> 404, error |-> "NotFound", body |-> NoRow]]_vars

\* get_person has answered 404 for a Person that delete_person soft-deleted
\* together with its Party.
C9_Witness ==
  \E s \in Sessions :
    /\ pc[s] = "done"
    /\ req[s].op = "get_person"
    /\ resp[s].status = 404
    /\ \E p \in Range(people) :
         /\ p.id = req[s].person_id
         /\ ~p.is_active
         /\ PartyById(p.party_id).status = "archived"

\* C10: delete_person ends true (204) exactly when a Person row with the id
\* exists, active or not: with no such row it ends false (404) at its select
\* and changes no row; on a row that is already soft-deleted its commit
\* ends true and leaves both tables as they were.
C10_DeleteTrueIffRowExists ==
  [][\A s \in Sessions :
       LET exists == \E p \in Range(people) : p.id = req[s].person_id IN
         /\ (req[s].op = "delete_person" /\ Step(s) /\ pc'[s] = "done")
              => (resp'[s].status = 204 <=> exists)
         /\ (pc[s] = "delete_select" /\ Step(s) /\ ~exists)
              => /\ resp'[s] = [status |-> 404, error |-> "NotFound", body |-> NoRow]
                 /\ people' = people
                 /\ parties' = parties
                 /\ tx'[s] = NoTx
         /\ (pc[s] = "delete_select" /\ Step(s) /\ exists)
              => pc'[s] = "delete_execute_person"
         /\ (/\ pc[s] = "delete_commit"
             /\ Step(s)
             /\ \E p \in Range(people) : p.id = req[s].person_id /\ ~p.is_active)
              => /\ resp'[s].status = 204
                 /\ people' = people
                 /\ parties' = parties]_vars

\* Two delete_person calls on the same id have both ended true, and a third
\* on an id that never existed has ended false.
C10_Witness ==
  /\ \E s, t \in Sessions :
       /\ s # t
       /\ pc[s] = "done" /\ pc[t] = "done"
       /\ req[s].op = "delete_person" /\ req[t].op = "delete_person"
       /\ req[s].person_id = req[t].person_id
       /\ resp[s].status = 204 /\ resp[t].status = 204
       /\ PersonById(req[s].person_id).is_active = FALSE

\* C11: get_person(id) never modifies a row.  Its select finds a Person
\* exactly when a row with that id exists with is_active = true, and answers
\* absence (404) otherwise; with the Person found and its Party stored it
\* returns 200 with a view whose fields are the Person row's and whose party
\* summary is the linked Party's id, party_type, display_name and status,
\* and absence when the Party is missing.
C11_GetPersonView ==
  [][\A s \in Sessions :
       (req[s].op = "get_person" /\ pc[s] # "done" /\ Step(s))
         => /\ people' = people
            /\ parties' = parties
            /\ tx'[s] = NoTx
            /\ pc[s] \in {"get_select", "get_party"}
            /\ pc[s] = "get_select" =>
                 IF \E p \in Range(people) : p.id = req[s].person_id /\ p.is_active
                 THEN /\ pc'[s] = "get_party"
                      /\ orm'[s].person \in Range(people)
                      /\ orm'[s].person.id = req[s].person_id
                 ELSE /\ pc'[s] = "done"
                      /\ resp'[s] = [status |-> 404, error |-> "NotFound", body |-> NoRow]
            /\ pc[s] = "get_party" =>
                 LET person == orm[s].person IN
                   /\ pc'[s] = "done"
                   /\ IF \E q \in Range(parties) : q.id = person.party_id
                      THEN \E q \in Range(parties) :
                             /\ q.id = person.party_id
                             /\ resp'[s].status = 200
                             /\ resp'[s].body =
                                  [id |-> person.id,
                                   party |-> [id |-> q.id, party_type |-> q.party_type,
                                              display_name |-> q.display_name,
                                              status |-> q.status],
                                   first_name |-> person.first_name,
                                   last_name |-> person.last_name,
                                   date_of_birth |-> person.date_of_birth,
                                   email |-> person.email,
                                   phone |-> person.phone,
                                   is_active |-> person.is_active]
                      ELSE resp'[s] = [status |-> 404, error |-> "NotFound",
                                       body |-> NoRow]]_vars

\* get_person has returned the view of an active Person whose names an
\* update_person changed: the view shows the stored names and display name.
C11_Witness ==
  \E s \in Sessions :
    /\ pc[s] = "done"
    /\ req[s].op = "get_person"
    /\ resp[s].status = 200
    /\ \E p \in Range(people) :
         /\ p.id = req[s].person_id
         /\ p.is_active
         /\ p.first_name = "Ann"
         /\ resp[s].body.first_name = "Ann"
         /\ resp[s].body.email = p.email
         /\ resp[s].body.party.id = p.party_id
         /\ resp[s].body.party.display_name = PartyById(p.party_id).display_name
         /\ resp[s].body.party.status = "active"

\* The position in table people of the k-th active Person, 0 if there are
\* fewer than k.
KthActive(k) ==
  IF \E i \in 1..Len(people) :
       people[i].is_active
       /\ Cardinality({j \in 1..i : people[j].is_active}) = k
  THEN CHOOSE i \in 1..Len(people) :
         people[i].is_active
         /\ Cardinality({j \in 1..i : people[j].is_active}) = k
  ELSE 0

\* C12: list_people(skip, limit) changes no row and returns 200 with at most
\* limit views; the k-th view is the view of the (skip + k)-th active Person
\* in insertion order with its Party, none is missing up to limit, and no
\* view is of a Person with is_active = false.
C12_ListOnlyActive ==
  [][\A s \in Sessions :
       (pc[s] = "list_select" /\ Step(s))
         => LET items == resp'[s].body.items
                skip == req[s].skip
                limit == req[s].limit
                nActive == Cardinality({i \in 1..Len(people) : people[i].is_active})
                rest == IF nActive > skip THEN nActive - skip ELSE 0
            IN /\ people' = people
               /\ parties' = parties
               /\ pc'[s] = "done"
               /\ resp'[s].status = 200
               /\ Len(items) = IF rest < limit THEN rest ELSE limit
               /\ \A k \in 1..Len(items) :
                    LET p == people[KthActive(skip + k)] IN
                      /\ items[k].is_active = TRUE
                      /\ items[k].id = p.id
                      /\ items[k].first_name = p.first_name
                      /\ items[k].last_name = p.last_name
                      /\ items[k].email = p.email
                      /\ items[k].party.id = p.party_id
                      /\ items[k].party.status = PartyById(p.party_id).status
                      /\ items[k].party.display_name =
                           PartyById(p.party_id).display_name]_vars

\* list_people has skipped the first Person, which is soft-deleted, and
\* returned the one active Person.
C12_Witness ==
  \E s \in Sessions :
    /\ pc[s] = "done"
    /\ req[s].op = "list_people"
    /\ req[s].skip = 0
    /\ Len(people) = 2
    /\ ~people[1].is_active
    /\ people[2].is_active
    /\ Len(resp[s].body.items) = 1
    /\ resp[s].body.items[1].id = people[2].id

\* C13: in every step no Person or Party row is removed or moved, a Person
\* with is_active = false keeps is_active = false and a Party with status
\* "archived" keeps status "archived".
C13_SoftDeletePermanent ==
  [][/\ Len(people') >= Len(people)
     /\ Len(parties') >= Len(parties)
     /\ \A i \in 1..Len(people) :
          /\ people'[i].id = people[i].id
          /\ people[i].is_active = FALSE => people'[i].is_active = FALSE
     /\ \A j \in 1..Len(parties) :
          /\ parties'[j].id = parties[j].id
          /\ parties[j].status = "archived" => parties'[j].status = "archived"]_vars

\* A Person was soft-deleted and an update_person call on it that provided
\* names has come to its end, the pair still soft-deleted.
C13_Witness ==
  \E s, t \in Sessions :
    /\ pc[s] = "done" /\ pc[t] = "done"
    /\ req[s].op = "delete_person" /\ resp[s].status = 204
    /\ req[t].op = "update_person" /\ req[t].person_id = req[s].person_id
    /\ NamesInData(req[t].data)
    /\ \E p \in Range(people) :
         /\ p.id = req[s].person_id
         /\ ~p.is_active
         /\ PartyById(p.party_id).status = "archived"

\* C14: in every committed state every Person row references exactly one
\* stored Party row, no two Person rows have the same party_id, and every
\* Party row is referenced by exactly one Person row.
C14_OneToOne ==
  /\ \A i \in 1..Len(people) :
       Cardinality({j \in 1..Len(parties) : parties[j].id = people[i].party_id}) = 1
  /\ \A j \in 1..Len(parties) :
       Cardinality({i \in 1..Len(people) : people[i].party_id = parties[j].id}) = 1

\* A create_person call passed the pre-check, flushed its Party and was then
\* rejected by the store; another pair is stored.
C14_Witness ==
  \E s \in Sessions :
    /\ pc[s] = "done"
    /\ req[s].op = "create_person"
    /\ resp[s].error = "DatabaseError"
    /\ Len(people) = 1
    /\ Len(parties) = 1
    /\ tx[s] = NoTx

\* C15: when a create_person call that passed the email pre-check reaches
\* its commit and a rival call has committed a Person with the same email in
\* between, the call ends with 409 DatabaseError, no Party or Person row is
\* added or changed and nothing of its transaction remains; otherwise it
\* commits exactly one Party/Person pair and ends with 201.
C15_CreateRaceOneCommits ==
  [][\A s \in Sessions :
       pc[s] = "create_commit" /\ Step(s) =>
         IF \E i \in 1..Len(people) : people[i].email = req[s].body.email
         THEN /\ resp'[s].status = 409
              /\ resp'[s].error = "DatabaseError"
              /\ people' = people
              /\ parties' = parties
              /\ tx'[s] = NoTx
         ELSE /\ resp'[s].status = 201
              /\ Len(people') = Len(people) + 1
              /\ Len(parties') = Len(parties) + 1
              /\ \A i \in 1..Len(people) : people'[i] = people[i]
              /\ \A j \in 1..Len(parties) : parties'[j] = parties[j]
              /\ people'[Len(people')].email = req[s].body.email
              /\ people'[Len(people')].party_id = parties'[Len(parties')].id]_vars

\* Two concurrent create_person calls with the same email both passed the
\* pre-check; one ended with 201, the other with 409 DatabaseError, and one
\* pair is stored.
C15_Witness ==
  /\ \A s \in Sessions : pc[s] = "done" /\ req[s].op = "create_person"
  /\ req[1].body.email = req[2].body.email
  /\ resp[1].status = 201
  /\ resp[2].status = 409
  /\ resp[2].error = "DatabaseError"
  /\ Len(people) = 1
  /\ Len(parties) = 1
  /\ calls = 2

\* C16: every finished update_person call ends in one of the documented
\* outcomes: 200, 404 NotFound, 400 ValidationError or a 409 conflict; a
\* uniqueness violation raised by the store is never left unmapped.
C16_UpdateOutcomeDocumented ==
  \A s \in Sessions :
    pc[s] = "done" /\ req[s].op = "update_person" =>
      resp[s].status \in {200, 404, 400, 409}

\* An update_person call whose UPDATE statement was rejected by the unique
\* index after its own email check had passed.
UpdateLosesEmailRace ==
  \E s \in Sessions :
    /\ pc[s] = "done"
    /\ req[s].op = "update_person"
    /\ resp[s].status = 500
    /\ \E i \in 1..Len(people) :
         /\ people[i].email = req[s].data.email
         /\ people[i].id # req[s].person_id

\* C17: no step of an update_person call changes a field of the target
\* that the body gave as explicit null; and a call whose body provides no
\* non-null field goes straight to get_person, changes no Person or Party
\* row, writes nothing in its transaction, and ends with 404 NotFound when
\* no active row has the id and otherwise with 200 and the composed view of
\* the stored Person and its Party.
C17_NullIsNotGiven ==
  [][\A s \in Sessions :
       /\ (req[s].op = "update_person" /\ Step(s)) =>
            \A i \in 1..Len(people) :
              people[i].id = req[s].person_id =>
                \A f \in Fields :
                  req[s].body[f] = NULL => people'[i][f] = people[i][f]
       /\ (pc[s] = "idle" /\ req'[s].op = "update_person"
           /\ Provided(req'[s].body) = {}) => pc'[s] = "get_select"
       /\ (req[s].op = "update_person" /\ Provided(req[s].body) = {}
           /\ pc[s] # "done" /\ Step(s)) =>
            /\ people' = people
            /\ parties' = parties
            /\ tx'[s] = NoTx
            /\ pc[s] \in {"get_select", "get_party"}
            /\ pc[s] = "get_select" =>
                 IF NoActiveRow(req[s].person_id)
                 THEN /\ pc'[s] = "done"
                      /\ resp'[s] = [status |-> 404, error |-> "NotFound", body |-> NoRow]
                 ELSE /\ pc'[s] = "get_party"
                      /\ orm'[s].person \in Range(people)
                      /\ orm'[s].person.id = req[s].person_id
            /\ pc[s] = "get_party" =>
                 /\ pc'[s] = "done"
                 /\ resp'[s].status = 200
                 /\ \E q \in Range(parties) :
                      /\ q.id = orm[s].person.party_id
                      /\ resp'[s].body = PersonResponse(orm[s].person, q)]_vars

\* An update_person call whose body was {phone: null} has returned 200: the
\* stored phone and the phone of the view are the value from before.
C17_Witness ==
  \E s \in Sessions :
    /\ pc[s] = "done"
    /\ req[s].op = "update_person"
    /\ req[s].body.phone = NULL
    /\ Provided(req[s].body) = {}
    /\ resp[s].status = 200
    /\ resp[s].body.phone = "555"
    /\ PersonById(req[s].person_id).phone = "555"

\* C18: no step of an update_person call changes any field of a Person row
\* whose is_active is false, nor the display_name of a Party row whose
\* status is "archived".
C18_UpdateNeverWritesSoftDeleted ==
  [][\A s \in Sessions :
       (req[s].op = "update_person" /\ Step(s)) =>
         /\ \A i \in 1..Len(people) :
              people[i].is_active = FALSE => people'[i] = people[i]
         /\ \A j \in 1..Len(parties) :
              parties[j].status = "archived" =>
                parties'[j].display_name = parties[j].display_name]_vars

\* An update_person call has committed a display_name on a Party that a
\* delete_person call had archived before.
UpdateWritesArchivedParty ==
  \E s \in Sessions :
    /\ pc[s] = "get_select"
    /\ req[s].op = "update_person"
    /\ NamesInData(req[s].data)
    /\ orm[s].person # NoRow
    /\ \E p \in Range(people), q \in Range(parties) :
         /\ p.id = req[s].person_id
         /\ q.id = p.party_id
         /\ p.is_active = FALSE
         /\ q.status = "archived"
         /\ q.display_name = orm[s].party.display_name
         /\ q.display_name # "Jane Roe"
         /\ q.display_name # "John Doe"

\* The step with which an update_person call returns.
UpdateReturns(s) == req[s].op = "update_person" /\ pc[s] # "done" /\ pc'[s] = "done"

\* C19: an update_person call that returns not found has committed no change
\* to a Person or Party row, also when a delete_person call on the same id
\* ran between its steps.
C19_UpdateNotFoundChangedNothing ==
  [][\A s \in Sessions :
       (UpdateReturns(s) /\ resp'[s].status = 404) => ~wrote[s]]_vars

\* The view an update_person call returns is the composed view of the
\* committed Person row and its Party row at the time it returns.
UpdateViewIsCommittedState ==
  [][\A s \in Sessions :
       (UpdateReturns(s) /\ resp'[s].status = 200) =>
         \E p \in Range(people), q \in Range(parties) :
           /\ p.id = req[s].person_id
           /\ q.id = p.party_id
           /\ resp'[s].body = PersonResponse(p, q)]_vars

\* An update_person call has returned 404 NotFound although the Person row
\* holds the field it wrote.
UpdateNotFoundAfterWrite ==
  \E s \in Sessions :
    /\ pc[s] = "done"
    /\ req[s].op = "update_person"
    /\ resp[s].status = 404
    /\ wrote[s]
    /\ req[s].data.first_name = "Ann"
    /\ PersonById(req[s].person_id).first_name = "Ann"
    /\ PersonById(req[s].person_id).is_active = FALSE

\* C20: in every committed state each Person row has a stored Party row,
\* and its is_active is false exactly when that Party's status is
\* "archived" and true exactly when the status is "active".
C20_ActiveIffNotArchived ==
  \A i \in 1..Len(people) :
    \E j \in 1..Len(parties) :
      /\ parties[j].id = people[i].party_id
      /\ parties[j].status \in {"active", "archived"}
      /\ people[i].is_active = FALSE <=> parties[j].status = "archived"
      /\ people[i].is_active = TRUE <=> parties[j].status = "active"

\* A delete_person call has returned 204: its pair is inactive and archived
\* while another pair is active, after an update_person call renamed one.
C20_Witness ==
  /\ \E s \in Sessions :
       /\ pc[s] = "done"
       /\ req[s].op = "delete_person"
       /\ resp[s].status = 204
       /\ PersonById(req[s].person_id).is_active = FALSE
       /\ PartyById(PersonById(req[s].person_id).party_id).status = "archived"
  /\ \E p \in Range(people) :
       /\ p.is_active = TRUE
       /\ PartyById(p.party_id).status = "active"
  /\ \E p \in Range(people) : PartyById(p.party_id).display_name = "Ann Roe"

====
